---- MODULE Spec2Model ----
(***************************************************************************)
(* Data-quality tests of evidently.v2 (data_quality_tests.py): a Test      *)
(* binds a Metric and, for the value tests, a TestValueCondition; check()  *)
(* reads the Metric's cached result and returns a TestResult or raises.    *)
(*                                                                         *)
(* Numbers are exact fixed-point values, one unit = 0.0001 (so 0.42 is     *)
(* 4200 and 50 is 500000).  Optional values are tagged records.            *)
(***************************************************************************)
EXTENDS Integers, Sequences, FiniteSets, TLC

VARIABLES args, ctor, test, metric, outcome, prev, calls, cond_used, invoked, drawn

\* several tests checked concurrently against one Metric instance: the
\* instance, each thread's Test, position and locals, the TestResult objects
\* the running calls created, and whether two calls ever overlapped
VARIABLES shared, thread, heap, overlapped

\* the cloud client: the CloudMetadataStorage object, what the server and the
\* client did so far, the last _request call and the last add_dataset call
VARIABLES client, net, last, upload

seqvars == <<args, ctor, test, metric, outcome, prev, calls, cond_used, invoked, drawn>>
concvars == <<shared, thread, heap, overlapped>>
cloudvars == <<client, net, last, upload>>
vars == <<seqvars, concvars, cloudvars>>

\* ------------------------------------------------------------------ values
NoneV == [t |-> "none"]
Num(v) == [t |-> "num", v |-> v]
Str(s) == [t |-> "str", s |-> s]
\* a bound whose comparison with a number raises exception exc
Bad(exc) == [t |-> "bad", exc |-> exc]
ListV(s) == [t |-> "list", s |-> s]
Raise(exc) == [t |-> "raise", exc |-> exc]

\* whole numbers and decimals in fixed-point units
Whole(n) == n * 10000
Milli(n) == n * 10

Abs(x) == IF x < 0 THEN -x ELSE x

\* np.round(x, 3): round half to even at the third decimal
Round3(x) ==
    LET q == x \div 10
        r == x % 10
    IN  IF r > 5 \/ (r = 5 /\ q % 2 = 1) THEN 10 * (q + 1) ELSE 10 * q

\* x / 100.0
Div100(x) == x \div 100

\* ------------------------------------------------------------------ bounds
MaxCalls == 2

Columns == {"age", "fare"}

\* ------------------------------------------------------------- conditions
DefaultAbsolute == 0

ApproxValue(v, rel) == [t |-> "approx", v |-> v, rel |-> rel, abs |-> DefaultAbsolute]

\* approx(value, relative=None): relative None means no relative band
approx(v, rel) == ApproxValue(v, rel)

TestValueCondition(eq, gt, gte, is_in, lt, lte, not_eq, not_in) ==
    [t |-> "condition", eq |-> eq, gt |-> gt, gte |-> gte, is_in |-> is_in,
     lt |-> lt, lte |-> lte, not_eq |-> not_eq, not_in |-> not_in]

Unset == TestValueCondition(NoneV, NoneV, NoneV, NoneV, NoneV, NoneV, NoneV, NoneV)

CondFields == {"eq", "gt", "gte", "is_in", "lt", "lte", "not_eq", "not_in"}

is_set(c) == \E f \in CondFields : c[f] # NoneV

\* tolerance of a tolerant value, times 10000: the larger of the relative
\* band (rel is a fraction in fixed-point units) and the absolute band
Tolerance10000(a) ==
    LET relv == IF a.rel = NoneV THEN 0 ELSE a.rel.v * Abs(a.v)
        absv == a.abs * 10000
    IN  IF relv > absv THEN relv ELSE absv

ApproxEq(a, x) == 10000 * Abs(x - a.v) <= Tolerance10000(a)

\* can the predicate of field f with bound b be computed for a number?
Applicable(f, b) ==
    CASE b.t = "bad" -> FALSE
      [] f \in {"is_in", "not_in"} -> b.t = "list"
      [] f \in {"gt", "gte", "lt", "lte"} -> b.t = "num"
      [] OTHER -> TRUE

Holds(f, b, x) ==
    CASE f = "eq" -> IF b.t = "approx" THEN ApproxEq(b, x) ELSE b = Num(x)
      [] f = "not_eq" -> IF b.t = "approx" THEN ~ApproxEq(b, x) ELSE b # Num(x)
      [] f = "gt" -> x > b.v
      [] f = "gte" -> x >= b.v
      [] f = "lt" -> x < b.v
      [] f = "lte" -> x <= b.v
      [] f = "is_in" -> Num(x) \in b.s
      [] f = "not_in" -> Num(x) \notin b.s

\* check_value(value): "true", "false", or the exception of the first
\* configured bound (in field order) whose predicate cannot be computed
FieldOrder == <<"eq", "gt", "gte", "is_in", "lt", "lte", "not_eq", "not_in">>

check_value(c, x) ==
    LET set == {i \in 1..Len(FieldOrder) : c[FieldOrder[i]] # NoneV}
        bad == {i \in set : ~Applicable(FieldOrder[i], c[FieldOrder[i]])}
    IN  IF bad # {}
        THEN LET i == CHOOSE j \in bad : \A k \in bad : j <= k
                 b == c[FieldOrder[i]]
             IN  Raise(IF b.t = "bad" THEN b.exc ELSE "TypeError")
        ELSE IF \A i \in set : Holds(FieldOrder[i], c[FieldOrder[i]], x)
             THEN Str("true") ELSE Str("false")

\* ---------------------------------------------------------- metric results
\* per-feature statistics of DataQualityMetrics (each may be undefined)
FeatureStats(mn, mx, mean, p50, std, ucount, upct, mcvpct) ==
    [min |-> mn, max |-> mx, mean |-> mean, percentile_50 |-> p50, std |-> std,
     unique_count |-> ucount, unique_percentage |-> upct,
     most_common_value_percentage |-> mcvpct]

\* sample statistics of the current data for one column
CurrentProfiles ==
    { FeatureStats(Num(Whole(1)), Num(Whole(90)), Num(Whole(40)), Num(Whole(41)),
                   Num(Whole(5)), Num(Whole(7)), Num(Whole(70)), Num(Milli(37800))),
      FeatureStats(Num(Whole(2)), Num(Whole(80)), Num(Whole(55)), Num(Whole(50)),
                   Num(Whole(4)), Num(Whole(3)), Num(Whole(30)), Num(Whole(46))),
      FeatureStats(Num(Whole(0)), Num(Whole(99)), Num(Whole(60)), Num(Whole(60)),
                   Num(Whole(6)), Num(Whole(9)), Num(Whole(90)), Num(Milli(46200))),
      FeatureStats(Num(Whole(3)), Num(Whole(70)), Num(Whole(61)), Num(Whole(62)),
                   Num(Whole(8)), Num(Whole(5)), Num(Whole(50)), Num(Whole(50))),
      FeatureStats(Num(4), Num(Whole(75)), Num(Whole(39) + 9996), Num(Whole(39)),
                   Num(Whole(2)), Num(Whole(4)), Num(Whole(40)), Num(Milli(37700))),
      \* a categorical column: no numeric statistics
      FeatureStats(NoneV, NoneV, NoneV, NoneV, NoneV,
                   Num(Whole(2)), Num(Whole(20)), Num(Whole(80))),
      \* a column with no values at all
      FeatureStats(NoneV, NoneV, NoneV, NoneV, NoneV, NoneV, NoneV, NoneV) }

\* sample statistics of the reference data for one column
ReferenceProfiles ==
    { FeatureStats(Num(Whole(1)), Num(Whole(90)), Num(Whole(50)), Num(Whole(50)),
                   Num(Whole(5)), Num(Whole(7)), Num(Whole(70)), Num(Whole(42))),
      FeatureStats(Num(Whole(1)), Num(Whole(90)), Num(Whole(50)), Num(Whole(50)),
                   Num(Whole(0)), Num(Whole(1)), Num(Whole(10)), Num(Whole(100))),
      FeatureStats(NoneV, NoneV, NoneV, NoneV, NoneV, NoneV, NoneV, NoneV) }

FareProfile ==
    FeatureStats(Num(Whole(7)), Num(Whole(512)), Num(Whole(32)), Num(Whole(14)),
                 Num(Whole(49)), Num(Whole(248)), Num(Whole(28)), Num(Whole(5)))

\* a statistics mapping: a function from the columns it contains
StatsMaps(ageProfiles) ==
    { [c \in {} |-> FareProfile], [c \in {"fare"} |-> FareProfile] }
    \cup { [c \in {"age"} |-> p] : p \in ageProfiles }
    \cup { [c \in {"age", "fare"} |-> IF c = "age" THEN p ELSE FareProfile] : p \in ageProfiles }

Stats(m) == [t |-> "stats", m |-> m]

\* get_result() of a metric either fails with a data error or returns the
\* cached snapshot
DataError == [t |-> "error"]

QualityResults ==
    { [t |-> "quality", features_stats |-> Stats(cur), reference_features_stats |-> ref] :
        cur \in StatsMaps(CurrentProfiles),
        ref \in {NoneV} \cup { Stats(r) : r \in StatsMaps(ReferenceProfiles) } }

StabilityResults ==
    { [t |-> "stability", number_not_stable_target |-> a, number_not_stable_prediction |-> b] :
        a \in {NoneV, Num(0), Num(Whole(3))}, b \in {NoneV, Num(0), Num(Whole(2))} }

CorrelationResults ==
    { [t |-> "correlation", target_prediction_correlation |-> a,
       abs_max_num_features_correlation |-> b] :
        a \in {NoneV, Num(Milli(500))}, b \in {NoneV, Num(Milli(950))} }

RangeResults ==
    { [t |-> "range", number_not_in_range |-> Num(0), share_not_in_range |-> Num(0)],
      [t |-> "range", number_not_in_range |-> Num(Whole(3)), share_not_in_range |-> Num(Milli(30))] }

ListResults ==
    { [t |-> "list", number_not_in_list |-> Num(0), share_not_in_list |-> Num(0)],
      [t |-> "list", number_not_in_list |-> Num(Whole(2)), share_not_in_list |-> Num(Milli(20))] }

QuantileResults ==
    { [t |-> "quantile", value |-> v] : v \in {NoneV, Num(Whole(30)), Num(Whole(70))} }

ResultsOf(family) ==
    {DataError} \cup
    CASE family = "quality" -> QualityResults
      [] family = "stability" -> StabilityResults
      [] family = "correlation" -> CorrelationResults
      [] family = "range" -> RangeResults
      [] family = "list" -> ListResults
      [] family = "quantile" -> QuantileResults

\* a Metric instance: its construction parameters and its cached result
Metric(family, column, left, right, values, quantile, method, result) ==
    [family |-> family, column |-> column, left |-> left, right |-> right,
     values |-> values, quantile |-> quantile, method |-> method, result |-> result]

\* metric.get_result()
get_result(m) == IF m.result = DataError THEN Raise("DataError") ELSE m.result

\* ------------------------------------------------------------------- tests
FeatureKinds ==
    {"TestFeatureValueMin", "TestFeatureValueMax", "TestFeatureValueMean",
     "TestFeatureValueMedian", "TestFeatureValueStd", "TestNumberOfUniqueValues",
     "TestUniqueValuesShare", "TestMostCommonValueShare"}

CorrelationKinds ==
    {"TestTargetPredictionCorrelation", "HighlyCorrelatedFeatures", "CorrelationChanges"}

RangeValueKinds == {"TestNumberOfOutRangeValues", "TestShareOfOutRangeValues"}

ListValueKinds == {"TestNumberOfOutListValues", "TestShareOfOutListValues"}

\* the tests whose check() is the one of BaseCheckValueTest
BaseCheckKinds ==
    CorrelationKinds \cup RangeValueKinds \cup ListValueKinds \cup {"TestValueQuantile"}

\* the class attribute `name`
name(kind) ==
    CASE kind = "TestConflictTarget" -> "Test number of conflicts in target"
      [] kind = "TestConflictPrediction" -> "Test number of conflicts in prediction"
      [] kind = "TestTargetPredictionCorrelation" -> "Test correlation between target and prediction"
      [] kind = "HighlyCorrelatedFeatures" ->
            "Test max correlation between numerical features and compares it against the threshold"
      [] kind = "CorrelationChanges" ->
            "Test max correlation between numerical features and target, prediction for regression tasks"
      [] kind = "TestFeatureValueMin" -> "Test a feature min value"
      [] kind = "TestFeatureValueMax" -> "Test a feature max value"
      [] kind = "TestFeatureValueMean" -> "Test a feature mean value"
      [] kind = "TestFeatureValueMedian" -> "Test a feature median value"
      [] kind = "TestFeatureValueStd" -> "Test a feature std value"
      [] kind = "TestNumberOfUniqueValues" -> "Test a feature for number of unique values"
      [] kind = "TestUniqueValuesShare" -> "Test a feature for share of unique values"
      [] kind = "TestMostCommonValueShare" -> "Test Share of the Most Common Value"
      [] kind = "TestMeanInNSigmas" -> "Test Mean Value Stability"
      [] kind = "TestValueRange" -> "Checks that all values of certain column belong to the interval"
      [] kind = "TestNumberOfOutRangeValues" ->
            "Test the number of out range values for a given feature and compares it against the threshold"
      [] kind = "TestShareOfOutRangeValues" -> "Test Share of Out-Of-Range Values"
      [] kind = "TestValueList" -> "Test checks whether a feature values is in some list of values"
      [] kind = "TestNumberOfOutListValues" ->
            "Test the number of out list values for a given feature and compares it against the threshold"
      [] kind = "TestShareOfOutListValues" -> "Test Share of Out-Of-List Values"
      [] kind = "TestValueQuantile" ->
            "Test calculates quantile value of a given column and compares it against the threshold"

\* a Test object: the attributes its constructor assigns (NoneV where the
\* class has no such attribute)
Test(kind, column_name, condition, n_sigmas, left, right, values, quantile, method) ==
    [kind |-> kind, column_name |-> column_name, condition |-> condition,
     n_sigmas |-> n_sigmas, left |-> left, right |-> right, values |-> values,
     quantile |-> quantile, method |-> method]

\* the keyword arguments of a constructor call; `condition` stands for the
\* eight bound keywords eq, gt, gte, is_in, lt, lte, not_eq, not_in
Args(kind, column_name, condition, n_sigmas, left, right, values, quantile, method, m) ==
    [kind |-> kind, column_name |-> column_name, condition |-> condition,
     n_sigmas |-> n_sigmas, left |-> left, right |-> right, values |-> values,
     quantile |-> quantile, method |-> method, metric |-> m]

Constructed(t, m) == [t |-> "ok", test |-> t, metric |-> m]

NoParams(family, result) ==
    Metric(family, NoneV, NoneV, NoneV, NoneV, NoneV, NoneV, result)

\* BaseDataQualityMetricsValueTest.__init__ and
\* BaseFeatureDataQualityMetricsTest.__init__; `computed` is the result the
\* default-constructed metric will compute from the data
BaseFeatureDataQualityMetricsTest_init(a, computed) ==
    Constructed(
        Test(a.kind, a.column_name, a.condition, NoneV, NoneV, NoneV, NoneV, NoneV, NoneV),
        IF a.metric # NoneV THEN a.metric ELSE NoParams("quality", computed))

TestConflictTarget_init(a, computed) ==
    Constructed(
        Test(a.kind, NoneV, NoneV, NoneV, NoneV, NoneV, NoneV, NoneV, NoneV),
        IF a.metric # NoneV THEN a.metric ELSE NoParams("stability", computed))

TestConflictPrediction_init(a, computed) ==
    Constructed(
        Test(a.kind, NoneV, NoneV, NoneV, NoneV, NoneV, NoneV, NoneV, NoneV),
        IF a.metric # NoneV THEN a.metric ELSE NoParams("stability", computed))

BaseDataQualityCorrelationsMetricsValueTest_init(a, computed) ==
    Constructed(
        Test(a.kind, NoneV, a.condition, NoneV, NoneV, NoneV, NoneV, NoneV, a.method),
        IF a.metric # NoneV THEN a.metric
        ELSE Metric("correlation", NoneV, NoneV, NoneV, NoneV, NoneV, a.method, computed))

TestMeanInNSigmas_init(a, computed) ==
    Constructed(
        Test(a.kind, a.column_name, NoneV, a.n_sigmas, NoneV, NoneV, NoneV, NoneV, NoneV),
        IF a.metric # NoneV THEN a.metric ELSE NoParams("quality", computed))

TestValueRange_init(a, computed) ==
    Constructed(
        Test(a.kind, a.column_name, NoneV, NoneV, a.left, a.right, NoneV, NoneV, NoneV),
        IF a.metric # NoneV THEN a.metric
        ELSE Metric("range", a.column_name, a.left, a.right, NoneV, NoneV, NoneV, computed))

BaseDataQualityValueRangeMetricsTest_init(a, computed) ==
    Constructed(
        Test(a.kind, a.column_name, a.condition, NoneV, a.left, a.right, NoneV, NoneV, NoneV),
        IF a.metric # NoneV THEN a.metric
        ELSE Metric("range", a.column_name, a.left, a.right, NoneV, NoneV, NoneV, computed))

TestValueList_init(a, computed) ==
    Constructed(
        Test(a.kind, a.column_name, NoneV, NoneV, NoneV, NoneV, a.values, NoneV, NoneV),
        IF a.metric # NoneV THEN a.metric
        ELSE Metric("list", a.column_name, NoneV, NoneV, a.values, NoneV, NoneV, computed))

BaseDataQualityValueListMetricsTest_init(a, computed) ==
    Constructed(
        Test(a.kind, a.column_name, a.condition, NoneV, NoneV, NoneV, a.values, NoneV, NoneV),
        IF a.metric # NoneV THEN a.metric
        ELSE Metric("list", a.column_name, NoneV, NoneV, a.values, NoneV, NoneV, computed))

TestValueQuantile_init(a, computed) ==
    IF a.metric # NoneV /\ (a.column_name # NoneV \/ a.quantile # NoneV)
    THEN Raise("ValueError")
    ELSE Constructed(
        Test(a.kind, a.column_name, a.condition, NoneV, NoneV, NoneV, NoneV, a.quantile, NoneV),
        IF a.metric # NoneV THEN a.metric
        ELSE Metric("quantile", a.column_name, NoneV, NoneV, NoneV, a.quantile, NoneV, computed))

\* ----------------------------------------------------------------- results
SUCCESS == "SUCCESS"
FAIL == "FAIL"
ERROR == "ERROR"
SKIPPED == "SKIPPED"

TestResult(nm, description, status) ==
    [t |-> "result", name |-> nm, description |-> description, status |-> status]

\* TestResult.mark_as_fail(), mark_as_success(), mark_as_error(description)
mark_as_fail(result) == [result EXCEPT !.status = FAIL]
mark_as_success(result) == [result EXCEPT !.status = SUCCESS]
mark_as_error(result, description) ==
    [result EXCEPT !.status = ERROR, !.description = description]

\* a condition as it appears inside a description
CondPart(c) == [t |-> "cond", c |-> c]

\* what one check() call did: the Test object as the call left it, what the
\* call returned or raised, the condition it handed to check_value (NoneV
\* when it evaluated none), and the methods it invoked, in order
Did(self, out, cond, trace) ==
    [self |-> self, out |-> out, cond |-> cond, trace |-> trace]

\* a check() whose method calls are not followed
Done(self, out, cond) == Did(self, out, cond, <<>>)

\* the calls made before d's own
After(prefix, d) == [d EXCEPT !.trace = prefix \o @]

\* --------------------------------------------------- per-class value hooks
RelativeTolerance == 1000
FixedCeiling == 8000

BaseCheckValueTest_get_condition(self, m) == self.condition

\* variant: the relative tolerance is 0.2
TestMostCommonValueShare_get_condition_wide(self, m) ==
    IF is_set(self.condition) THEN self.condition
    ELSE LET reference == get_result(m).reference_features_stats
         IN  IF reference # NoneV
             THEN IF self.column_name.s \notin DOMAIN reference.m THEN Raise("KeyError")
                  ELSE LET pct == reference.m[self.column_name.s].most_common_value_percentage
                       IN  IF pct = NoneV THEN Raise("TypeError")
                           ELSE TestValueCondition(
                                    approx(Div100(pct.v), Num(2 * RelativeTolerance)),
                                    NoneV, NoneV, NoneV, NoneV, NoneV, NoneV, NoneV)
             ELSE TestValueCondition(NoneV, NoneV, NoneV, NoneV, Num(FixedCeiling),
                                     NoneV, NoneV, NoneV)

\* variant: the reference default takes precedence over explicit bounds
TestMostCommonValueShare_get_condition_reference_first(self, m) ==
    LET reference == get_result(m).reference_features_stats
    IN  IF reference # NoneV
        THEN IF self.column_name.s \notin DOMAIN reference.m THEN Raise("KeyError")
             ELSE LET pct == reference.m[self.column_name.s].most_common_value_percentage
                  IN  IF pct = NoneV THEN Raise("TypeError")
                      ELSE TestValueCondition(
                               approx(Div100(pct.v), Num(RelativeTolerance)),
                               NoneV, NoneV, NoneV, NoneV, NoneV, NoneV, NoneV)
        ELSE IF is_set(self.condition) THEN self.condition
        ELSE TestValueCondition(NoneV, NoneV, NoneV, NoneV, Num(FixedCeiling),
                                NoneV, NoneV, NoneV)

\* variant: the fixed ceiling is inclusive (lte instead of lt)
TestMostCommonValueShare_get_condition_ceiling_inclusive(self, m) ==
    IF is_set(self.condition) THEN self.condition
    ELSE LET reference == get_result(m).reference_features_stats
         IN  IF reference # NoneV
             THEN IF self.column_name.s \notin DOMAIN reference.m THEN Raise("KeyError")
                  ELSE LET pct == reference.m[self.column_name.s].most_common_value_percentage
                       IN  IF pct = NoneV THEN Raise("TypeError")
                           ELSE TestValueCondition(
                                    approx(Div100(pct.v), Num(RelativeTolerance)),
                                    NoneV, NoneV, NoneV, NoneV, NoneV, NoneV, NoneV)
             ELSE TestValueCondition(NoneV, NoneV, NoneV, NoneV, NoneV,
                                     Num(FixedCeiling), NoneV, NoneV)

TestMostCommonValueShare_get_condition(self, m) ==
    IF is_set(self.condition) THEN self.condition
    ELSE LET reference == get_result(m).reference_features_stats
         IN  IF reference # NoneV
             THEN IF self.column_name.s \notin DOMAIN reference.m THEN Raise("KeyError")
                  ELSE LET pct == reference.m[self.column_name.s].most_common_value_percentage
                       IN  IF pct = NoneV THEN Raise("TypeError")
                           ELSE TestValueCondition(
                                    approx(Div100(pct.v), Num(RelativeTolerance)),
                                    NoneV, NoneV, NoneV, NoneV, NoneV, NoneV, NoneV)
             ELSE TestValueCondition(NoneV, NoneV, NoneV, NoneV, Num(FixedCeiling),
                                     NoneV, NoneV, NoneV)

\* variant: the default only asks for a non-negative share
TestShareOfOutRangeValues_get_condition_non_negative(self, m) ==
    IF is_set(self.condition) THEN self.condition
    ELSE TestValueCondition(NoneV, NoneV, Num(0), NoneV, NoneV, NoneV, NoneV, NoneV)

TestShareOfOutRangeValues_get_condition(self, m) ==
    IF is_set(self.condition) THEN self.condition
    ELSE TestValueCondition(approx(0, NoneV), NoneV, NoneV, NoneV, NoneV, NoneV, NoneV, NoneV)

TestShareOfOutListValues_get_condition(self, m) ==
    IF is_set(self.condition) THEN self.condition
    ELSE TestValueCondition(approx(0, NoneV), NoneV, NoneV, NoneV, NoneV, NoneV, NoneV, NoneV)

\* self.get_condition(): the override of the test's class
get_condition(self, m) ==
    CASE self.kind = "TestMostCommonValueShare" -> TestMostCommonValueShare_get_condition(self, m)
      [] self.kind = "TestShareOfOutRangeValues" -> TestShareOfOutRangeValues_get_condition(self, m)
      [] self.kind = "TestShareOfOutListValues" -> TestShareOfOutListValues_get_condition(self, m)
      [] OTHER -> BaseCheckValueTest_get_condition(self, m)

\* the statistic a feature test reads from features_stats[column_name]
FeatureField(kind) ==
    CASE kind = "TestFeatureValueMin" -> "min"
      [] kind = "TestFeatureValueMax" -> "max"
      [] kind = "TestFeatureValueMean" -> "mean"
      [] kind = "TestFeatureValueMedian" -> "percentile_50"
      [] kind = "TestFeatureValueStd" -> "std"
      [] kind = "TestNumberOfUniqueValues" -> "unique_count"
      [] kind = "TestUniqueValuesShare" -> "unique_percentage"
      [] kind = "TestMostCommonValueShare" -> "most_common_value_percentage"

\* self.calculate_value_for_test() of the feature tests; the two share tests
\* divide by 100.0, which raises TypeError on None
Feature_calculate_value_for_test(self, m) ==
    LET stat == get_result(m).features_stats.m[self.column_name.s][FeatureField(self.kind)]
    IN  IF self.kind \in {"TestUniqueValuesShare", "TestMostCommonValueShare"}
        THEN IF stat = NoneV THEN Raise("TypeError") ELSE Num(Div100(stat.v))
        ELSE stat

\* self.calculate_value_for_test() of the other value tests
Value_calculate_value_for_test(self, m) ==
    LET r == get_result(m)
    IN  CASE self.kind = "TestTargetPredictionCorrelation" -> r.target_prediction_correlation
          [] self.kind \in {"HighlyCorrelatedFeatures", "CorrelationChanges"} ->
                r.abs_max_num_features_correlation
          [] self.kind = "TestNumberOfOutRangeValues" -> r.number_not_in_range
          [] self.kind = "TestShareOfOutRangeValues" -> r.share_not_in_range
          [] self.kind = "TestNumberOfOutListValues" -> r.number_not_in_list
          [] self.kind = "TestShareOfOutListValues" -> r.share_not_in_list
          [] self.kind = "TestValueQuantile" -> r.value

\* a description: an f-string as the sequence of its parts
Text(parts) == [t |-> "text", parts |-> parts]

\* self.get_description(value); three classes print self.get_condition(),
\* whose exception propagates
get_description(self, m, value) ==
    LET col == self.column_name
        c == get_condition(self, m)
    IN  CASE self.kind = "TestTargetPredictionCorrelation" ->
                Text(<<Str("Correlation between target and prediction is "), Num(value)>>)
          [] self.kind \in {"HighlyCorrelatedFeatures", "CorrelationChanges"} ->
                Text(<<Str("Max numeric features correlation is "), Num(value)>>)
          [] self.kind = "TestFeatureValueMin" ->
                Text(<<Str("Min value for feature '"), col, Str("' is "), Num(value)>>)
          [] self.kind = "TestFeatureValueMax" ->
                Text(<<Str("Max value for feature '"), col, Str("' is "), Num(value)>>)
          [] self.kind = "TestFeatureValueMean" ->
                Text(<<Str("Mean value for feature '"), col, Str("' is "), Num(value)>>)
          [] self.kind = "TestFeatureValueMedian" ->
                Text(<<Str("Median (50 percentile) value for feature '"), col, Str("' is "), Num(value)>>)
          [] self.kind = "TestFeatureValueStd" ->
                Text(<<Str("Std value for feature '"), col, Str("' is "), Num(value)>>)
          [] self.kind = "TestNumberOfUniqueValues" ->
                Text(<<Str("Number of unique values for feature '"), col, Str("' is "), Num(value)>>)
          [] self.kind = "TestUniqueValuesShare" ->
                Text(<<Str("Share of unique values for feature '"), col, Str("' is "), Num(value)>>)
          [] self.kind = "TestMostCommonValueShare" ->
                IF c.t = "raise" THEN c
                ELSE Text(<<Str("Share of the Most Common Value for column "), col, Str(" is "),
                       Num(Round3(value)), Str(". Test Threshold is ["), CondPart(c), Str("].")>>)
          [] self.kind = "TestNumberOfOutRangeValues" ->
                Text(<<Str("Number of out of the range values for feature '"), col, Str("' is "), Num(value)>>)
          [] self.kind = "TestShareOfOutRangeValues" ->
                Text(<<Str("Share of Out-Of-Range Values for feature "), col, Str(" is "),
                  Num(Round3(value)), Str(". Test Threshold is ["), CondPart(c), Str("].")>>)
          [] self.kind = "TestNumberOfOutListValues" ->
                Text(<<Str("Number of out of the list values for feature '"), col, Str("' is "), Num(value)>>)
          [] self.kind = "TestShareOfOutListValues" ->
                Text(<<Str("Share of Out-Of-List Values for feature "), col, Str(" is "),
                  Num(Round3(value)), Str(". Test Threshold is ["), CondPart(c), Str("].")>>)
          [] self.kind = "TestValueQuantile" ->
                Text(<<Str("Quantile "), self.quantile, Str(" for column '"), col, Str("' is "), Num(value)>>)

\* ------------------------------------------------------------------ check()
Seed(self) == TestResult(name(self.kind), <<Str("The test was not launched")>>, SKIPPED)

\* variant: a false condition leaves the seeded status in place
Feature_evaluate_no_fail(self, m, result, value) ==
    LET c == get_condition(self, m)
        condition_check_result == check_value(c, value)
    IN  IF c.t = "raise"
        THEN IF c.exc = "ValueError"
             THEN Did(self, mark_as_error(result, <<Str("Cannot calculate the condition")>>), NoneV,
                 <<"get_condition">>)
             ELSE Did(self, c, NoneV,
                 <<"get_condition">>)
        ELSE IF condition_check_result.t = "raise"
        THEN IF condition_check_result.exc = "ValueError"
             THEN Did(self, mark_as_error(result, <<Str("Cannot calculate the condition")>>), c,
                 <<"get_condition", "check_value">>)
             ELSE Did(self, condition_check_result, c,
                 <<"get_condition", "check_value">>)
        ELSE IF condition_check_result = Str("true")
        THEN Did(self, mark_as_success(result), c,
                 <<"get_condition", "check_value">>)
        ELSE Did(self, [result EXCEPT !.status = SKIPPED], c,
                 <<"get_condition", "check_value">>)

\* variant: the condition that was resolved is kept in self.condition
Feature_evaluate_caching(self, m, result, value) ==
    LET c == get_condition(self, m)
        kept == [self EXCEPT !.condition = c]
        condition_check_result == check_value(c, value)
    IN  IF c.t = "raise"
        THEN IF c.exc = "ValueError"
             THEN Did(self, mark_as_error(result, <<Str("Cannot calculate the condition")>>), NoneV,
                 <<"get_condition">>)
             ELSE Did(self, c, NoneV,
                 <<"get_condition">>)
        ELSE IF condition_check_result.t = "raise"
        THEN IF condition_check_result.exc = "ValueError"
             THEN Did(kept, mark_as_error(result, <<Str("Cannot calculate the condition")>>), c,
                 <<"get_condition", "check_value">>)
             ELSE Did(kept, condition_check_result, c,
                 <<"get_condition", "check_value">>)
        ELSE IF condition_check_result = Str("true")
        THEN Did(kept, mark_as_success(result), c,
                 <<"get_condition", "check_value">>)
        ELSE Did(kept, mark_as_fail(result), c,
                 <<"get_condition", "check_value">>)

\* variant: the verdict is taken from the caller's condition, not from the
\* resolved one
Feature_evaluate_explicit(self, m, result, value) ==
    LET c == self.condition
        condition_check_result == check_value(c, value)
    IN  IF condition_check_result.t = "raise"
        THEN IF condition_check_result.exc = "ValueError"
             THEN Did(self, mark_as_error(result, <<Str("Cannot calculate the condition")>>), c,
                 <<"check_value">>)
             ELSE Did(self, condition_check_result, c,
                 <<"check_value">>)
        ELSE IF condition_check_result = Str("true")
        THEN Did(self, mark_as_success(result), c,
                 <<"check_value">>)
        ELSE Did(self, mark_as_fail(result), c,
                 <<"check_value">>)

\* the try block of BaseFeatureDataQualityMetricsTest.check: only ValueError
\* is caught
Feature_evaluate(self, m, result, value) ==
    LET c == get_condition(self, m)
        condition_check_result == check_value(c, value)
    IN  IF c.t = "raise"
        THEN IF c.exc = "ValueError"
             THEN Did(self, mark_as_error(result, <<Str("Cannot calculate the condition")>>), NoneV,
                 <<"get_condition">>)
             ELSE Did(self, c, NoneV,
                 <<"get_condition">>)
        ELSE IF condition_check_result.t = "raise"
        THEN IF condition_check_result.exc = "ValueError"
             THEN Did(self, mark_as_error(result, <<Str("Cannot calculate the condition")>>), c,
                 <<"get_condition", "check_value">>)
             ELSE Did(self, condition_check_result, c,
                 <<"get_condition", "check_value">>)
        ELSE IF condition_check_result = Str("true")
        THEN Did(self, mark_as_success(result), c,
                 <<"get_condition", "check_value">>)
        ELSE Did(self, mark_as_fail(result), c,
                 <<"get_condition", "check_value">>)

\* variant: the description is built before the value is tested for None
BaseFeatureDataQualityMetricsTest_check_describe_first(self, m) ==
    LET result == Seed(self)
        r == get_result(m)
    IN  IF r.t = "raise" THEN Did(self, r, NoneV, <<"get_result">>)
        ELSE IF self.column_name.s \notin DOMAIN r.features_stats.m
        THEN Did(self, [mark_as_fail(result) EXCEPT !.description =
                      <<Str("Feature '"), self.column_name, Str("' was not found")>>], NoneV,
                 <<"get_result">>)
        ELSE LET value == Feature_calculate_value_for_test(self, m)
             IN  IF value.t = "raise"
                 THEN Did(self, value, NoneV, <<"get_result", "calculate_value_for_test">>)
                 ELSE IF value = NoneV
                 THEN Did(self, mark_as_error(result,
                          <<Str("No value for the feature '"), self.column_name, Str("'")>>), NoneV,
                          <<"get_result", "calculate_value_for_test", "get_description">>)
                 ELSE LET description == get_description(self, m, value.v)
                      IN  IF description.t = "raise"
                          THEN Did(self, description, NoneV,
                                   <<"get_result", "calculate_value_for_test", "get_description">>)
                          ELSE After(<<"get_result", "calculate_value_for_test", "get_description">>,
                                     Feature_evaluate(self, m,
                                         [result EXCEPT !.description = description.parts], value.v))

BaseFeatureDataQualityMetricsTest_check(self, m) ==
    LET result == Seed(self)
        r == get_result(m)
    IN  IF r.t = "raise" THEN Did(self, r, NoneV, <<"get_result">>)
        ELSE IF self.column_name.s \notin DOMAIN r.features_stats.m
        THEN Did(self, [mark_as_fail(result) EXCEPT !.description =
                      <<Str("Feature '"), self.column_name, Str("' was not found")>>], NoneV,
                 <<"get_result">>)
        ELSE LET value == Feature_calculate_value_for_test(self, m)
             IN  IF value.t = "raise"
                 THEN Did(self, value, NoneV, <<"get_result", "calculate_value_for_test">>)
                 ELSE IF value = NoneV
                 THEN Did(self, mark_as_error(result,
                          <<Str("No value for the feature '"), self.column_name, Str("'")>>), NoneV,
                          <<"get_result", "calculate_value_for_test">>)
                 ELSE LET description == get_description(self, m, value.v)
                      IN  IF description.t = "raise"
                          THEN Did(self, description, NoneV,
                                   <<"get_result", "calculate_value_for_test", "get_description">>)
                          ELSE After(<<"get_result", "calculate_value_for_test", "get_description">>,
                                     Feature_evaluate(self, m,
                                         [result EXCEPT !.description = description.parts], value.v))

\* variant: a missing count is taken for a stable target
TestConflictTarget_check_missing_stable(self, m) ==
    LET metric_result == get_result(m)
    IN  IF metric_result.t = "raise" THEN Done(self, metric_result, NoneV)
        ELSE IF metric_result.number_not_stable_target # NoneV
                /\ metric_result.number_not_stable_target.v > 0
        THEN Done(self, TestResult(name(self.kind),
                     <<Str("Not stable target rows count is "),
                       metric_result.number_not_stable_target>>, FAIL), NoneV)
        ELSE Done(self, TestResult(name(self.kind), <<Str("Target is stable")>>, SUCCESS), NoneV)

TestConflictTarget_check(self, m) ==
    LET metric_result == get_result(m)
    IN  IF metric_result.t = "raise" THEN Done(self, metric_result, NoneV)
        ELSE IF metric_result.number_not_stable_target = NoneV
        THEN Done(self, TestResult(name(self.kind), <<Str("No target in the dataset")>>, ERROR), NoneV)
        ELSE IF metric_result.number_not_stable_target.v > 0
        THEN Done(self, TestResult(name(self.kind),
                     <<Str("Not stable target rows count is "),
                       metric_result.number_not_stable_target>>, FAIL), NoneV)
        ELSE Done(self, TestResult(name(self.kind), <<Str("Target is stable")>>, SUCCESS), NoneV)

TestConflictPrediction_check(self, m) ==
    LET metric_result == get_result(m)
    IN  IF metric_result.t = "raise" THEN Done(self, metric_result, NoneV)
        ELSE IF metric_result.number_not_stable_prediction = NoneV
        THEN Done(self, TestResult(name(self.kind), <<Str("No prediction in the dataset")>>, ERROR), NoneV)
        ELSE IF metric_result.number_not_stable_prediction.v > 0
        THEN Done(self, TestResult(name(self.kind),
                     <<Str("Not stable prediction rows count is "),
                       metric_result.number_not_stable_prediction>>, FAIL), NoneV)
        ELSE Done(self, TestResult(name(self.kind), <<Str("Prediction is stable")>>, SUCCESS), NoneV)

\* the verdict of TestMeanInNSigmas.check for a window and a current mean
MeanInNSigmas_verdict_closed(self, current_mean, left_condition, right_condition) ==
    IF left_condition <= current_mean /\ current_mean <= right_condition
    THEN Done(self, TestResult(name(self.kind),
             <<Str("Mean value of column "), self.column_name, Str(" "),
               Num(Round3(current_mean)), Str(" is in range from "),
               Num(Round3(left_condition)), Str(" to "),
               Num(Round3(right_condition))>>, SUCCESS), NoneV)
    ELSE Done(self, TestResult(name(self.kind),
             <<Str("Mean value of column "), self.column_name, Str(" "),
               Num(Round3(current_mean)), Str(" is not in range from "),
               Num(Round3(left_condition)), Str(" to "),
               Num(Round3(right_condition))>>, FAIL), NoneV)

MeanInNSigmas_verdict(self, current_mean, left_condition, right_condition) ==
    IF left_condition < current_mean /\ current_mean < right_condition
    THEN Done(self, TestResult(name(self.kind),
             <<Str("Mean value of column "), self.column_name, Str(" "),
               Num(Round3(current_mean)), Str(" is in range from "),
               Num(Round3(left_condition)), Str(" to "),
               Num(Round3(right_condition))>>, SUCCESS), NoneV)
    ELSE Done(self, TestResult(name(self.kind),
             <<Str("Mean value of column "), self.column_name, Str(" "),
               Num(Round3(current_mean)), Str(" is not in range from "),
               Num(Round3(left_condition)), Str(" to "),
               Num(Round3(right_condition))>>, FAIL), NoneV)

\* variant: the scaled deviation (in whole units) is kept in self.n_sigmas
MeanInNSigmas_window_stored(self, current, reference) ==
    LET current_mean == current.mean
        reference_mean == reference.mean
        reference_std == reference.std
    IN  IF reference_std = NoneV \/ reference_mean = NoneV \/ current_mean = NoneV
        THEN Done(self, Raise("TypeError"), NoneV)
        ELSE LET sigmas_value == reference_std.v * self.n_sigmas
                 left_condition == reference_mean.v - sigmas_value
                 right_condition == reference_mean.v + sigmas_value
             IN  MeanInNSigmas_verdict([self EXCEPT !.n_sigmas = sigmas_value \div Whole(1)],
                                       current_mean.v, left_condition, right_condition)

\* the window of TestMeanInNSigmas.check once both columns are present;
\* arithmetic or comparison with an undefined statistic raises TypeError
MeanInNSigmas_window(self, current, reference) ==
    LET current_mean == current.mean
        reference_mean == reference.mean
        reference_std == reference.std
    IN  IF reference_std = NoneV \/ reference_mean = NoneV \/ current_mean = NoneV
        THEN Done(self, Raise("TypeError"), NoneV)
        ELSE LET sigmas_value == reference_std.v * self.n_sigmas
                 left_condition == reference_mean.v - sigmas_value
                 right_condition == reference_mean.v + sigmas_value
             IN  MeanInNSigmas_verdict(self, current_mean.v, left_condition, right_condition)

\* variant: a missing reference is skipped instead of raised
TestMeanInNSigmas_check_skipping(self, m) ==
    LET r == get_result(m)
    IN  IF r.t = "raise" THEN Done(self, r, NoneV)
        ELSE LET reference_feature_stats == r.reference_features_stats
                 features_stats == r.features_stats
             IN  IF reference_feature_stats = NoneV
                 THEN Done(self, Seed(self), NoneV)
                 ELSE IF self.column_name.s \notin DOMAIN features_stats.m
                 THEN Done(self, TestResult(name(self.kind),
                          <<Str("Column "), self.column_name,
                            Str(" should be in current data")>>, ERROR), NoneV)
                 ELSE IF self.column_name.s \notin DOMAIN reference_feature_stats.m
                 THEN Done(self, TestResult(name(self.kind),
                          <<Str("Column "), self.column_name,
                            Str(" should be in reference data")>>, ERROR), NoneV)
                 ELSE MeanInNSigmas_window(self, features_stats.m[self.column_name.s],
                                           reference_feature_stats.m[self.column_name.s])

TestMeanInNSigmas_check(self, m) ==
    LET r == get_result(m)
    IN  IF r.t = "raise" THEN Done(self, r, NoneV)
        ELSE LET reference_feature_stats == r.reference_features_stats
                 features_stats == r.features_stats
             IN  IF reference_feature_stats = NoneV
                 THEN Done(self, Raise("ValueError"), NoneV)
                 ELSE IF self.column_name.s \notin DOMAIN features_stats.m
                 THEN Done(self, TestResult(name(self.kind),
                          <<Str("Column "), self.column_name,
                            Str(" should be in current data")>>, ERROR), NoneV)
                 ELSE IF self.column_name.s \notin DOMAIN reference_feature_stats.m
                 THEN Done(self, TestResult(name(self.kind),
                          <<Str("Column "), self.column_name,
                            Str(" should be in reference data")>>, ERROR), NoneV)
                 ELSE MeanInNSigmas_window(self, features_stats.m[self.column_name.s],
                                           reference_feature_stats.m[self.column_name.s])

TestValueRange_check(self, m) ==
    LET r == get_result(m)
    IN  IF r.t = "raise" THEN Done(self, r, NoneV)
        ELSE LET number_not_in_range == r.number_not_in_range
             IN  IF number_not_in_range.v > 0
                 THEN Done(self, TestResult(name(self.kind),
                          <<Str("Column "), self.column_name, Str(" has "), number_not_in_range,
                            Str(" values that are not in range from "), self.left,
                            Str(" to "), self.right, Str(".")>>, FAIL), NoneV)
                 ELSE Done(self, TestResult(name(self.kind),
                          <<Str("Column "), self.column_name, Str(" values are in range from "),
                            self.left, Str(" to "), self.right>>, SUCCESS), NoneV)

TestValueList_check(self, m) ==
    LET metric_result == get_result(m)
    IN  IF metric_result.t = "raise" THEN Done(self, metric_result, NoneV)
        ELSE IF metric_result.number_not_in_list.v > 0
        THEN Done(self, TestResult(name(self.kind),
                     <<Str("Number values not in the values list is "),
                       metric_result.number_not_in_list>>, FAIL), NoneV)
        ELSE Done(self, TestResult(name(self.kind),
                     <<Str("All values is in the values list")>>, SUCCESS), NoneV)

\* BaseCheckValueTest.check, the check() of the remaining value tests: every
\* failure short of a verdict becomes an ERROR result
BaseCheckValueTest_check(self, m) ==
    LET result == Seed(self)
        r == get_result(m)
    IN  IF r.t = "raise"
        THEN Done(self, mark_as_error(result, <<Str("No metric result: "), Str(r.exc)>>), NoneV)
        ELSE LET value == Value_calculate_value_for_test(self, m)
             IN  IF value = NoneV
                 THEN Done(self, mark_as_error(result, <<Str("No value for the feature")>>), NoneV)
                 ELSE LET c == get_condition(self, m)
                          described == [result EXCEPT !.description =
                                           get_description(self, m, value.v).parts]
                          condition_check_result == check_value(c, value.v)
                      IN  IF condition_check_result.t = "raise"
                          THEN Done(self, mark_as_error(described,
                                   <<Str("cannot evaluate condition")>>), c)
                          ELSE IF condition_check_result = Str("true")
                          THEN Done(self, mark_as_success(described), c)
                          ELSE Done(self, mark_as_fail(described), c)

\* ---------------------------------------------------------------- renderers
\* what render_html handed to plot_check: the condition drawn as the
\* acceptance band (NoneV when the renderer draws none), or what it raised
Drawn(c) == [t |-> "drawn", c |-> c]

\* TestMeanInNSigmasRenderer.render_html: the band around the reference mean
TestMeanInNSigmasRenderer_condition(obj, m) ==
    LET r == get_result(m)
    IN  IF r.t = "raise" THEN r
        ELSE IF r.reference_features_stats = NoneV THEN Raise("TypeError")
        ELSE IF obj.column_name.s \notin DOMAIN r.reference_features_stats.m
        THEN Raise("KeyError")
        ELSE LET ref_mean == r.reference_features_stats.m[obj.column_name.s].mean
                 ref_std == r.reference_features_stats.m[obj.column_name.s].std
             IN  IF ref_mean = NoneV \/ ref_std = NoneV THEN Raise("TypeError")
                 ELSE LET gt == ref_mean.v - obj.n_sigmas * ref_std.v
                          lt == ref_mean.v + obj.n_sigmas * ref_std.v
                      IN  TestValueCondition(NoneV, Num(gt), NoneV, NoneV, Num(lt),
                                             NoneV, NoneV, NoneV)

\* TestValueRangeRenderer, TestNumberOfOutRangeValuesRenderer and
\* TestShareOfOutRangeValuesRenderer: the range the values are tested against
RangeRenderer_condition(obj) ==
    TestValueCondition(NoneV, obj.left, NoneV, NoneV, obj.right, NoneV, NoneV, NoneV)

\* the condition the renderer registered for the test's class draws
render_condition(obj, m) ==
    CASE obj.kind = "TestMeanInNSigmas" -> TestMeanInNSigmasRenderer_condition(obj, m)
      [] obj.kind \in {"TestValueRange", "TestNumberOfOutRangeValues",
                       "TestShareOfOutRangeValues"} -> RangeRenderer_condition(obj)
      [] obj.kind \in {"TestFeatureValueMin", "TestFeatureValueMax", "TestFeatureValueMean",
                       "TestFeatureValueMedian", "TestValueQuantile"} -> obj.condition
      [] OTHER -> NoneV

\* ------------------------------------------------------------------ inputs
DefaultNSigmas == 2

\* the bounds a caller passes: none, one, two, and bounds whose comparison
\* with a number raises (ValueError for an array-valued bound, TypeError for
\* a string)
UserConditions ==
    { Unset,
      TestValueCondition(NoneV, NoneV, NoneV, NoneV, Num(Milli(500)), NoneV, NoneV, NoneV),
      TestValueCondition(NoneV, Num(Whole(40)), NoneV, NoneV, NoneV, Num(Whole(60)), NoneV, NoneV),
      TestValueCondition(NoneV, Bad("ValueError"), NoneV, NoneV, NoneV, NoneV, NoneV, NoneV),
      TestValueCondition(NoneV, NoneV, NoneV, NoneV, Bad("TypeError"), NoneV, NoneV, NoneV) }

ColumnNames == { Str(c) : c \in Columns }
Methods == {Str("pearson"), Str("spearman")}
RangePairs == { <<Num(0), Num(Whole(100))>>, <<Num(Whole(10)), Num(Whole(50))>> }
ValueLists == { ListV({1, 2}), ListV({1, 2, 3}) }
Quantiles == { Num(Milli(500)), Num(Milli(900)) }
NSigmas == {1, DefaultNSigmas}

\* the Metric instances a caller may pass to a constructor
ExplicitMetrics(family) ==
    CASE family = "quality" -> { NoParams(family, r) : r \in ResultsOf(family) }
      [] family = "stability" -> { NoParams(family, r) : r \in ResultsOf(family) }
      [] family = "correlation" ->
            { Metric(family, NoneV, NoneV, NoneV, NoneV, NoneV, md, r) :
                md \in Methods, r \in ResultsOf(family) }
      [] family = "range" ->
            { Metric(family, c, lr[1], lr[2], NoneV, NoneV, NoneV, r) :
                c \in ColumnNames, lr \in RangePairs, r \in ResultsOf(family) }
      [] family = "list" ->
            { Metric(family, c, NoneV, NoneV, vs, NoneV, NoneV, r) :
                c \in ColumnNames, vs \in ValueLists, r \in ResultsOf(family) }
      [] family = "quantile" ->
            { Metric(family, c, NoneV, NoneV, NoneV, q, NoneV, r) :
                c \in ColumnNames, q \in Quantiles, r \in ResultsOf(family) }

\* the `metric` argument together with the result a default-constructed
\* metric would compute: either no metric and any result, or a given metric
MetricChoices(family) ==
    { <<NoneV, r>> : r \in ResultsOf(family) }
    \cup { <<m, m.result>> : m \in ExplicitMetrics(family) }

\* ----------------------------------------------------------------- actions
Init ==
    /\ args = NoneV
    /\ ctor = NoneV
    /\ test = NoneV
    /\ metric = NoneV
    /\ outcome = NoneV
    /\ prev = NoneV
    /\ calls = 0
    /\ cond_used = NoneV
    /\ invoked = <<>>
    /\ drawn = NoneV
    /\ shared = NoneV
    /\ thread = <<>>
    /\ heap = <<>>
    /\ overlapped = FALSE
    /\ client = NoneV /\ net = NoneV /\ last = NoneV /\ upload = NoneV

\* a constructor call with arguments a that returned or raised res
Construct(a, res) ==
    /\ args' = a
    /\ IF res.t = "raise"
       THEN ctor' = res /\ test' = NoneV /\ metric' = NoneV
       ELSE ctor' = Str("ok") /\ test' = res.test /\ metric' = res.metric
    /\ UNCHANGED <<outcome, prev, calls, cond_used, invoked, drawn>>
    /\ UNCHANGED <<concvars, cloudvars>>

ConstructFeature ==
    /\ ctor = NoneV
    /\ \E kind \in FeatureKinds, col \in ColumnNames, cond \in UserConditions,
       mc \in MetricChoices("quality") :
        LET a == Args(kind, col, cond, NoneV, NoneV, NoneV, NoneV, NoneV, NoneV, mc[1])
        IN  Construct(a, BaseFeatureDataQualityMetricsTest_init(a, mc[2]))

ConstructConflictTarget ==
    /\ ctor = NoneV
    /\ \E mc \in MetricChoices("stability") :
        LET a == Args("TestConflictTarget", NoneV, NoneV, NoneV, NoneV, NoneV, NoneV,
                      NoneV, NoneV, mc[1])
        IN  Construct(a, TestConflictTarget_init(a, mc[2]))

ConstructConflictPrediction ==
    /\ ctor = NoneV
    /\ \E mc \in MetricChoices("stability") :
        LET a == Args("TestConflictPrediction", NoneV, NoneV, NoneV, NoneV, NoneV, NoneV,
                      NoneV, NoneV, mc[1])
        IN  Construct(a, TestConflictPrediction_init(a, mc[2]))

ConstructCorrelation ==
    /\ ctor = NoneV
    /\ \E kind \in CorrelationKinds, md \in Methods, cond \in UserConditions,
       mc \in MetricChoices("correlation") :
        LET a == Args(kind, NoneV, cond, NoneV, NoneV, NoneV, NoneV, NoneV, md, mc[1])
        IN  Construct(a, BaseDataQualityCorrelationsMetricsValueTest_init(a, mc[2]))

ConstructMeanInNSigmas ==
    /\ ctor = NoneV
    /\ \E col \in ColumnNames, n \in NSigmas, mc \in MetricChoices("quality") :
        LET a == Args("TestMeanInNSigmas", col, NoneV, n, NoneV, NoneV, NoneV, NoneV,
                      NoneV, mc[1])
        IN  Construct(a, TestMeanInNSigmas_init(a, mc[2]))

ConstructValueRange ==
    /\ ctor = NoneV
    /\ \E col \in ColumnNames, lr \in RangePairs \cup {<<NoneV, NoneV>>},
       mc \in MetricChoices("range") :
        LET a == Args("TestValueRange", col, NoneV, NoneV, lr[1], lr[2], NoneV, NoneV,
                      NoneV, mc[1])
        IN  Construct(a, TestValueRange_init(a, mc[2]))

ConstructRangeValue ==
    /\ ctor = NoneV
    /\ \E kind \in RangeValueKinds, col \in ColumnNames, lr \in RangePairs \cup {<<NoneV, NoneV>>},
       cond \in UserConditions, mc \in MetricChoices("range") :
        LET a == Args(kind, col, cond, NoneV, lr[1], lr[2], NoneV, NoneV, NoneV, mc[1])
        IN  Construct(a, BaseDataQualityValueRangeMetricsTest_init(a, mc[2]))

ConstructValueList ==
    /\ ctor = NoneV
    /\ \E col \in ColumnNames, vs \in ValueLists \cup {NoneV}, mc \in MetricChoices("list") :
        LET a == Args("TestValueList", col, NoneV, NoneV, NoneV, NoneV, vs, NoneV,
                      NoneV, mc[1])
        IN  Construct(a, TestValueList_init(a, mc[2]))

ConstructListValue ==
    /\ ctor = NoneV
    /\ \E kind \in ListValueKinds, col \in ColumnNames, vs \in ValueLists \cup {NoneV},
       cond \in UserConditions, mc \in MetricChoices("list") :
        LET a == Args(kind, col, cond, NoneV, NoneV, NoneV, vs, NoneV, NoneV, mc[1])
        IN  Construct(a, BaseDataQualityValueListMetricsTest_init(a, mc[2]))

ConstructValueQuantile ==
    /\ ctor = NoneV
    /\ \E col \in ColumnNames \cup {NoneV}, q \in Quantiles \cup {NoneV},
       cond \in UserConditions, mc \in MetricChoices("quantile") :
        LET a == Args("TestValueQuantile", col, cond, NoneV, NoneV, NoneV, NoneV, q,
                      NoneV, mc[1])
        IN  Construct(a, TestValueQuantile_init(a, mc[2]))

\* a check() call on the constructed test that did d
Check(d) ==
    /\ calls < MaxCalls
    /\ test' = d.self
    /\ outcome' = d.out
    /\ prev' = outcome
    /\ calls' = calls + 1
    /\ cond_used' = d.cond
    /\ invoked' = d.trace
    /\ drawn' = NoneV
    /\ UNCHANGED <<args, ctor, metric>>
    /\ UNCHANGED <<concvars, cloudvars>>

CheckFeature ==
    /\ ctor = Str("ok") /\ test.kind \in FeatureKinds
    /\ Check(BaseFeatureDataQualityMetricsTest_check(test, metric))

CheckConflictTarget ==
    /\ ctor = Str("ok") /\ test.kind = "TestConflictTarget"
    /\ Check(TestConflictTarget_check(test, metric))

CheckConflictPrediction ==
    /\ ctor = Str("ok") /\ test.kind = "TestConflictPrediction"
    /\ Check(TestConflictPrediction_check(test, metric))

CheckMeanInNSigmas ==
    /\ ctor = Str("ok") /\ test.kind = "TestMeanInNSigmas"
    /\ Check(TestMeanInNSigmas_check(test, metric))

CheckValueRange ==
    /\ ctor = Str("ok") /\ test.kind = "TestValueRange"
    /\ Check(TestValueRange_check(test, metric))

CheckValueList ==
    /\ ctor = Str("ok") /\ test.kind = "TestValueList"
    /\ Check(TestValueList_check(test, metric))

CheckValue ==
    /\ ctor = Str("ok") /\ test.kind \in BaseCheckKinds
    /\ Check(BaseCheckValueTest_check(test, metric))

\* render_html on a test whose check() returned a Result
Render ==
    /\ ctor = Str("ok") /\ calls > 0 /\ outcome.t = "result"
    /\ drawn = NoneV
    /\ drawn' = Drawn(render_condition(test, metric))
    /\ UNCHANGED <<args, ctor, test, metric, outcome, prev, calls, cond_used, invoked>>
    /\ UNCHANGED <<concvars, cloudvars>>

Next ==
    \/ ConstructFeature
    \/ ConstructConflictTarget
    \/ ConstructConflictPrediction
    \/ ConstructCorrelation
    \/ ConstructMeanInNSigmas
    \/ ConstructValueRange
    \/ ConstructRangeValue
    \/ ConstructValueList
    \/ ConstructListValue
    \/ ConstructValueQuantile
    \/ CheckFeature
    \/ CheckConflictTarget
    \/ CheckConflictPrediction
    \/ CheckMeanInNSigmas
    \/ CheckValueRange
    \/ CheckValueList
    \/ CheckValue
    \/ Render

Spec == Init /\ [][Next]_vars

\* ------------------------------------------------------ concurrent checks
\* BaseFeatureDataQualityMetricsTest.check run by several threads, each on its
\* own Test, all Tests holding the same Metric instance; a thread's steps are
\* the statements of check() between two reads or writes of an object
Threads == {"t1", "t2"}

ConcurrentKinds == {"TestFeatureValueMin", "TestUniqueValuesShare", "TestMostCommonValueShare"}

ConcurrentConditions ==
    { Unset,
      TestValueCondition(NoneV, NoneV, NoneV, NoneV, Num(Milli(500)), NoneV, NoneV, NoneV) }

ConcurrentTests ==
    { Test(kind, col, cond, NoneV, NoneV, NoneV, NoneV, NoneV, NoneV) :
        kind \in ConcurrentKinds, col \in ColumnNames, cond \in ConcurrentConditions }

\* the Metric instance the tests share, its result computed once
SharedResults ==
    {DataError} \cup
    { [t |-> "quality", features_stats |-> Stats(cur), reference_features_stats |-> ref] :
        cur \in StatsMaps(CurrentProfiles),
        ref \in {NoneV} \cup { Stats(r) : r \in { x \in StatsMaps(ReferenceProfiles) :
                                                    DOMAIN x = Columns } } }

SharedMetrics == { NoParams("quality", r) : r \in SharedResults }

\* a thread about to call self.check()
Thread(self) == [self |-> self, pc |-> "idle", value |-> NoneV, ret |-> NoneV]

\* variant: every call works on one TestResult object
ResultSlot_shared(i) == "t1"

\* `result` is a local of the call: each call creates its own TestResult
ResultSlot(i) == i

InitConcurrent ==
    /\ args = NoneV /\ ctor = NoneV /\ test = NoneV /\ metric = NoneV
    /\ outcome = NoneV /\ prev = NoneV /\ calls = 0 /\ cond_used = NoneV
    /\ invoked = <<>> /\ drawn = NoneV
    /\ shared \in SharedMetrics
    /\ thread \in [Threads -> { Thread(t) : t \in ConcurrentTests }]
    /\ heap = [s \in Threads |-> NoneV]
    /\ overlapped = FALSE
    /\ client = NoneV /\ net = NoneV /\ last = NoneV /\ upload = NoneV

Running(i) == thread[i].pc \notin {"idle", "done"}

\* thread i moves to pc (keeping or setting its local value) and the call's
\* TestResult becomes result
Step(i, pc, value, result) ==
    /\ thread' = [thread EXCEPT ![i].pc = pc, ![i].value = value]
    /\ heap' = [heap EXCEPT ![ResultSlot(i)] = result]
    /\ overlapped' = (overlapped \/ \E j \in Threads \ {i} : Running(j))
    /\ UNCHANGED <<shared, seqvars, cloudvars>>

\* thread i leaves check() with out (the call's TestResult, or an exception)
Return(i, out) ==
    /\ thread' = [thread EXCEPT ![i].pc = "done", ![i].ret = out]
    /\ heap' = IF out.t = "result" THEN [heap EXCEPT ![ResultSlot(i)] = out] ELSE heap
    /\ overlapped' = (overlapped \/ \E j \in Threads \ {i} : Running(j))
    /\ UNCHANGED <<shared, seqvars, cloudvars>>

\* result = TestResult(..., status=SKIPPED)
Thread_seed(i) ==
    /\ thread[i].pc = "idle"
    /\ Step(i, "seeded", NoneV, Seed(thread[i].self))

\* features_stats = self.metric.get_result()...; the missing-feature exit
Thread_features_stats(i) ==
    /\ thread[i].pc = "seeded"
    /\ LET self == thread[i].self
           result == heap[ResultSlot(i)]
           r == get_result(shared)
       IN  IF r.t = "raise" THEN Return(i, r)
           ELSE IF self.column_name.s \notin DOMAIN r.features_stats.m
           THEN Return(i, [mark_as_fail(result) EXCEPT !.description =
                    <<Str("Feature '"), self.column_name, Str("' was not found")>>])
           ELSE Step(i, "stats", NoneV, result)

\* value = self.calculate_value_for_test(); the undefined-value exit
Thread_value(i) ==
    /\ thread[i].pc = "stats"
    /\ LET self == thread[i].self
           result == heap[ResultSlot(i)]
           value == Feature_calculate_value_for_test(self, shared)
       IN  IF value.t = "raise" THEN Return(i, value)
           ELSE IF value = NoneV
           THEN Return(i, mark_as_error(result,
                    <<Str("No value for the feature '"), self.column_name, Str("'")>>))
           ELSE Step(i, "value", value, result)

\* result.description = self.get_description(value)
Thread_describe(i) ==
    /\ thread[i].pc = "value"
    /\ LET self == thread[i].self
           result == heap[ResultSlot(i)]
           description == get_description(self, shared, thread[i].value.v)
       IN  IF description.t = "raise" THEN Return(i, description)
           ELSE Step(i, "described", thread[i].value,
                     [result EXCEPT !.description = description.parts])

\* the try block and `return result`
Thread_evaluate(i) ==
    /\ thread[i].pc = "described"
    /\ Return(i, Feature_evaluate(thread[i].self, shared, heap[ResultSlot(i)],
                                  thread[i].value.v).out)

ConcurrentSeed == \E i \in Threads : Thread_seed(i)
ConcurrentFeaturesStats == \E i \in Threads : Thread_features_stats(i)
ConcurrentValue == \E i \in Threads : Thread_value(i)
ConcurrentDescribe == \E i \in Threads : Thread_describe(i)
ConcurrentEvaluate == \E i \in Threads : Thread_evaluate(i)

NextConcurrent ==
    \/ ConcurrentSeed
    \/ ConcurrentFeaturesStats
    \/ ConcurrentValue
    \/ ConcurrentDescribe
    \/ ConcurrentEvaluate

SpecConcurrent == InitConcurrent /\ [][NextConcurrent]_vars

\* ------------------------------------------------------------ cloud client
\* CloudMetadataStorage (ui/workspace/cloud.py).  A call threads a world w:
\* the storage object, the number of tokens the server issued, the requests
\* sent so far in this call (each with the JWT that was cached when it was
\* sent) and the number of renewals started.
MaxRequests == 3

Unauthorized == 401

TokenCookie == "app.at"

LoginPath == "/api/users/login"

PublicPaths == {"/api/orgs", "/api/teams"}

DatasetsPath == "/api/datasets/"

HTTPError(status) == [t |-> "raise", exc |-> "HTTPError", status |-> status]

Response(path) == [t |-> "response", path |-> path]

\* what the server may answer to a request
Answers == {"ok", "unauthorized", "forbidden", "unreachable"}

Outcome(answer, path) ==
    CASE answer = "ok" -> Response(path)
      [] answer = "unauthorized" -> HTTPError(Unauthorized)
      [] answer = "forbidden" -> HTTPError(403)
      [] answer = "unreachable" -> Raise("ConnectionError")

\* a cookie dictionary: a function from the names it holds
Dict(m) == [t |-> "dict", m |-> m]

EmptyDict == Dict([c \in {} |-> NoneV])

SetItem(d, key, value) ==
    Dict([c \in DOMAIN d.m \cup {key} |-> IF c = key THEN value ELSE d.m[c]])

\* CloudMetadataStorage.__init__
CloudMetadataStorage_init == [jwt_token |-> NoneV, logged_in |-> FALSE]

World(self, issued) == [self |-> self, issued |-> issued, sent |-> <<>>, renewals |-> 0]

Got(w, out) == [w |-> w, out |-> out]

\* RemoteMetadataStorage._prepare_request: the Request object, its cookies a
\* dictionary of its own
RemoteMetadataStorage_prepare_request(path, cookies) ==
    [t |-> "request", path |-> path,
     cookies |-> IF cookies = NoneV THEN EmptyDict ELSE cookies]

\* the request leaves the client
Send(w, request) ==
    [w EXCEPT !.sent = Append(@, [path |-> request.path, cookies |-> request.cookies,
                                  cached |-> w.self.jwt_token])]

\* the login endpoint answered the login request that made the world w1
Answered(w1, answer) ==
    IF answer = "ok"
    THEN Got([w1 EXCEPT !.issued = @ + 1], Num(w1.issued + 1))
    ELSE Got(w1, Outcome(answer, LoginPath))

\* _get_jwt_token: the login request goes through the base class, whose
\* prepared request the override returns as it is for the login path
CloudMetadataStorage_get_jwt_token(w, answer) ==
    Answered(Send(w, RemoteMetadataStorage_prepare_request(LoginPath, NoneV)), answer)

\* self._jwt_token = <the token login l returned>, unless l raised
Cached(l) ==
    IF l.out.t = "raise" THEN l
    ELSE Got([l.w EXCEPT !.self.jwt_token = l.out], l.out)

\* variant: the property asks the login endpoint every time
CloudMetadataStorage_jwt_token_uncached(w, answer) ==
    Cached(CloudMetadataStorage_get_jwt_token(w, answer))

\* the property jwt_token: fetched on first use, then cached
CloudMetadataStorage_jwt_token(w, answer) ==
    IF w.self.jwt_token = NoneV
    THEN Cached(CloudMetadataStorage_get_jwt_token(w, answer))
    ELSE Got(w, w.self.jwt_token)

\* r.cookies[self.token_cookie_name] = self.jwt_token, j being what the
\* property gave
WithToken(r, j) ==
    IF j.out.t = "raise" THEN j
    ELSE Got(j.w, [r EXCEPT !.cookies = SetItem(@, TokenCookie, j.out)])

\* CloudMetadataStorage._prepare_request
CloudMetadataStorage_prepare_request(w, path, cookies, login) ==
    IF path = LoginPath
    THEN Got(w, RemoteMetadataStorage_prepare_request(path, cookies))
    ELSE WithToken(RemoteMetadataStorage_prepare_request(path, cookies),
                   CloudMetadataStorage_jwt_token(w, login))

\* the prepared request r is sent and answered
Sent(r, path, answer) ==
    IF r.out.t = "raise" THEN r
    ELSE Got(Send(r.w, r.out), Outcome(answer, path))

\* RemoteMetadataStorage._request: prepare (the override), send, raise for
\* an error status
RemoteMetadataStorage_request(w, path, cookies, login, answer) ==
    Sent(CloudMetadataStorage_prepare_request(w, path, cookies, login), path, answer)

\* variant: any 401 is taken for an expired token
ShouldRenew_any(self, e) == e.status = Unauthorized

\* the guard of the renewal: self._logged_in and status 401
ShouldRenew(self, e) == self.logged_in /\ e.status = Unauthorized

\* self._jwt_token = self._get_jwt_token() of the except block
Renewal(w, answer) ==
    Cached(CloudMetadataStorage_get_jwt_token([w EXCEPT !.renewals = @ + 1], answer))

\* a second attempt a that was refused is renewed and sent once more
Again(a, path, cookies) ==
    IF a.out.t = "raise" /\ a.out.exc = "HTTPError" /\ a.out.status = Unauthorized
    THEN RemoteMetadataStorage_request(Renewal(a.w, "ok").w, path, cookies, "ok", "ok")
    ELSE a

\* variant: a retry that is refused renews and retries once more
Retry_again(w, path, cookies, env) ==
    Again(RemoteMetadataStorage_request(w, path, cookies, "ok", env.retry), path, cookies)

\* the retry of the except block: the base class's _request, outside any try
Retry(w, path, cookies, env) ==
    RemoteMetadataStorage_request(w, path, cookies, "ok", env.retry)

\* what a _request call did: the world it left, what it returned or raised,
\* and what its first attempt, its renewal and its retry gave
Requested(w, out, first, renewal, retry) ==
    [w |-> w, out |-> out, first |-> first, renewal |-> renewal, retry |-> retry]

Retried(a, l, b) == Requested(b.w, b.out, a.out, l.out, b.out)

\* the except block after the renewal l: cookies[...] = self.jwt_token, then
\* the retry
Renewed(a, l, path, cookies, env) ==
    IF l.out.t = "raise" THEN Requested(l.w, l.out, a.out, l.out, NoneV)
    ELSE IF cookies = NoneV
    THEN Requested(l.w, Raise("TypeError"), a.out, l.out, NoneV)
    ELSE Retried(a, l, Retry(l.w, path, SetItem(cookies, TokenCookie, l.out), env))

\* the try and the except of _request around the first attempt a
Attempted(a, path, cookies, env) ==
    IF a.out.t # "raise"
    THEN Requested([a.w EXCEPT !.self.logged_in = TRUE], a.out, a.out, NoneV, NoneV)
    ELSE IF a.out.exc = "HTTPError" /\ ShouldRenew(a.w.self, a.out)
    THEN Renewed(a, Renewal(a.w, env.renewal), path, cookies, env)
    ELSE Requested(a.w, a.out, a.out, NoneV, NoneV)

\* CloudMetadataStorage._request; env holds the server's answers to the
\* first login (if one is needed), the request, the renewal and the retry
CloudMetadataStorage_request(w, path, cookies, env) ==
    Attempted(RemoteMetadataStorage_request(w, path, cookies, env.login, env.first),
              path, cookies, env)

\* the server's answers to the requests a call on self can make; an answer
\* to a request the call cannot come to make is left at "ok"
Environments(self) ==
    { e \in [login : {"ok", "unauthorized"}, first : Answers,
             renewal : {"ok", "unauthorized"}, retry : Answers] :
        /\ self.jwt_token # NoneV => e.login = "ok"
        /\ e.login # "ok" => e.first = "ok"
        /\ ~(self.logged_in /\ e.first = "unauthorized") => e.renewal = "ok"
        /\ (e.renewal # "ok" \/ e.first # "unauthorized") => e.retry = "ok" }

Logins(sent) == Cardinality({i \in DOMAIN sent : sent[i].path = LoginPath})

Sends(sent, path) == Cardinality({i \in DOMAIN sent : sent[i].path = path})

\* the client after a _request call that did c, and the record of the call
Called(path, cookies, c) ==
    /\ client' = c.w.self
    /\ net' = [issued |-> c.w.issued,
               calls |-> net.calls + 1,
               logins |-> net.logins + Logins(c.w.sent),
               renewals |-> net.renewals + c.w.renewals]
    /\ last' = [path |-> path, cookies |-> cookies, before |-> client,
                sent |-> c.w.sent, renewals |-> c.w.renewals,
                first |-> c.first, renewal |-> c.renewal, retry |-> c.retry,
                out |-> c.out]

\* one _request call on the client
Call(path, cookies, env) ==
    /\ net.calls < MaxRequests
    /\ Called(path, cookies,
              CloudMetadataStorage_request(World(client, net.issued), path, cookies, env))

InitCloud ==
    /\ args = NoneV /\ ctor = NoneV /\ test = NoneV /\ metric = NoneV
    /\ outcome = NoneV /\ prev = NoneV /\ calls = 0 /\ cond_used = NoneV
    /\ invoked = <<>> /\ drawn = NoneV
    /\ shared = NoneV /\ thread = <<>> /\ heap = <<>> /\ overlapped = FALSE
    /\ client = CloudMetadataStorage_init
    /\ net = [issued |-> 0, calls |-> 0, logins |-> 0, renewals |-> 0]
    /\ last = NoneV
    /\ upload = NoneV

\* create_org, list_orgs, create_team, load_dataset: _request with the
\* default cookies=None
PublicMethod ==
    /\ \E path \in PublicPaths, env \in Environments(client) : Call(path, NoneV, env)
    /\ UNCHANGED <<upload, seqvars, concvars>>

\* _request called with a cookie dictionary of the caller's
RequestWithCookies ==
    /\ \E path \in PublicPaths, env \in Environments(client) : Call(path, EmptyDict, env)
    /\ UNCHANGED <<upload, seqvars, concvars>>

\* CloudMetadataStorage.add_dataset: the id in the response of the upload
DatasetID == [t |-> "dataset_id"]

CloudMetadataStorage_add_dataset(out) ==
    IF out.t = "raise" THEN out ELSE DatasetID

\* what a caller hands to CloudWorkspace.add_dataset: a path that opens, a
\* path that does not, a DataFrame that converts to parquet, one that does not
Datas == {"path", "missing path", "frame", "unwritable frame"}

\* org_id and team_id: UUIDs, or strings that are or are not UUIDs
Ids == {"uuid", "uuid string", "malformed string"}

File(kind, closed) == [kind |-> kind, closed |-> closed]

Added(file, out, uploaded, stored) ==
    [file |-> file, out |-> out, uploaded |-> uploaded, stored |-> stored]

\* variant: the file is closed after the upload returned
CloudWorkspace_add_dataset_close_on_return(data, ids, stored) ==
    IF ids = "malformed string" THEN Added(NoneV, Raise("ValueError"), FALSE, NoneV)
    ELSE IF data = "missing path" THEN Added(NoneV, Raise("FileNotFoundError"), FALSE, NoneV)
    ELSE IF data = "unwritable frame"
    THEN Added(File("NamedBytesIO", FALSE), Raise("ValueError"), FALSE, NoneV)
    ELSE LET file == File(IF data = "path" THEN "open" ELSE "NamedBytesIO", FALSE)
             out == CloudMetadataStorage_add_dataset(stored)
         IN  Added([file EXCEPT !.closed = (out.t # "raise")], out, TRUE, stored)

\* CloudWorkspace.add_dataset; stored is what the storage's _request gave
CloudWorkspace_add_dataset(data, ids, stored) ==
    IF ids = "malformed string" THEN Added(NoneV, Raise("ValueError"), FALSE, NoneV)
    ELSE IF data = "missing path" THEN Added(NoneV, Raise("FileNotFoundError"), FALSE, NoneV)
    ELSE IF data = "unwritable frame"
    THEN Added(File("NamedBytesIO", FALSE), Raise("ValueError"), FALSE, NoneV)
    ELSE LET file == File(IF data = "path" THEN "open" ELSE "NamedBytesIO", FALSE)
             out == CloudMetadataStorage_add_dataset(stored)
         IN  Added([file EXCEPT !.closed = TRUE], out, TRUE, stored)

\* add_dataset did a; its upload, if it came to one, was a _request call
Uploaded(a, env) ==
    /\ upload' = a
    /\ IF a.uploaded THEN Call(DatasetsPath, NoneV, env)
       ELSE UNCHANGED <<client, net, last>>

AddDataset ==
    /\ net.calls < MaxRequests
    /\ \E data \in Datas, ids \in Ids, env \in Environments(client) :
        Uploaded(CloudWorkspace_add_dataset(data, ids,
                     CloudMetadataStorage_request(World(client, net.issued), DatasetsPath,
                                                  NoneV, env).out), env)
    /\ UNCHANGED <<seqvars, concvars>>

NextCloud ==
    \/ PublicMethod
    \/ RequestWithCookies
    \/ AddDataset

SpecCloud == InitCloud /\ [][NextCloud]_vars

TypeOK == calls \in 0..MaxCalls

\* ------------------------------------------------------------ properties
Checked == ctor = Str("ok") /\ calls > 0
Returned == outcome.t = "result"
Raised == outcome.t = "raise"
GotResult == metric.result # DataError

Names(description, column_name) ==
    \E i \in DOMAIN description : description[i] = column_name

CurrentHas == test.column_name.s \in DOMAIN metric.result.features_stats.m
ReferenceGiven == metric.result.reference_features_stats # NoneV
ReferenceHas ==
    /\ ReferenceGiven
    /\ test.column_name.s \in DOMAIN metric.result.reference_features_stats.m
CurrentStats == metric.result.features_stats.m[test.column_name.s]
ReferenceStats == metric.result.reference_features_stats.m[test.column_name.s]

\* C1: a feature-level test whose column is not in the feature statistics
\* returns a Result with status ERROR whose description names the column.
C1_MissingFeatureIsError ==
    (Checked /\ test.kind \in FeatureKinds /\ GotResult /\ ~CurrentHas)
        => (Returned /\ outcome.status = ERROR
            /\ Names(outcome.description, test.column_name))

\* C2: check() never propagates a data error, an undefined-value error or a
\* condition-evaluation error: apart from the missing-reference configuration
\* error of TestMeanInNSigmas, every check() returns a Result.
MissingReferenceCase ==
    test.kind = "TestMeanInNSigmas" /\ GotResult /\ ~ReferenceGiven

C2_NoErrorPropagates ==
    (Checked /\ ~MissingReferenceCase) => Returned

\* C3: every Result a check() returns has a terminal status SUCCESS, FAIL or
\* ERROR, and is not the seeded "not launched" Result.
C3_TerminalStatus ==
    (Checked /\ Returned)
        => (outcome.status \in {SUCCESS, FAIL, ERROR} /\ outcome # Seed(test))

C3_Witness ==
    /\ Checked /\ Returned
    /\ test.kind \in FeatureKinds
    /\ cond_used # NoneV
    /\ outcome.status = FAIL

\* C4: a second check() on the same Test against the unchanged Metric gives
\* the same outcome (status and description) as the first.
C4_Idempotent ==
    (ctor = Str("ok") /\ calls >= 2) => outcome = prev

C4_Witness ==
    /\ ctor = Str("ok") /\ calls >= 2
    /\ test.kind = "TestMeanInNSigmas"
    /\ Returned /\ outcome.status = FAIL
    /\ prev = outcome

\* C5: after a successful construction no check() raises a configuration
\* error (ValueError).
C5_NoConfigurationErrorAtCheck ==
    Checked => ~(Raised /\ outcome.exc = "ValueError")

\* C6: TestMeanInNSigmas against a Metric result without reference statistics
\* produces no Result; the caller receives a ValueError.
C6_MissingReferenceRaises ==
    (Checked /\ MissingReferenceCase) => outcome = Raise("ValueError")

C6_Witness ==
    /\ Checked /\ MissingReferenceCase
    /\ CurrentHas
    /\ Raised

\* C7 (as claimed): with the column in current and reference statistics and
\* numeric mean and std, TestMeanInNSigmas returns SUCCESS iff the current
\* mean lies in the closed window [ref_mean - n*std, ref_mean + n*std].
MeanCase ==
    /\ Checked /\ test.kind = "TestMeanInNSigmas" /\ GotResult
    /\ CurrentHas /\ ReferenceHas
    /\ CurrentStats.mean # NoneV
    /\ ReferenceStats.mean # NoneV /\ ReferenceStats.std # NoneV

WindowLeft == ReferenceStats.mean.v - test.n_sigmas * ReferenceStats.std.v
WindowRight == ReferenceStats.mean.v + test.n_sigmas * ReferenceStats.std.v

C7_ClosedWindow ==
    MeanCase =>
        /\ Returned
        /\ outcome.status =
             IF WindowLeft <= CurrentStats.mean.v /\ CurrentStats.mean.v <= WindowRight
             THEN SUCCESS ELSE FAIL

\* C7 (amended): SUCCESS iff the current mean lies strictly inside the
\* window, ref_mean - n*std < mean < ref_mean + n*std; FAIL otherwise,
\* the endpoints included.
C7_OpenWindow ==
    MeanCase =>
        /\ Returned
        /\ outcome.status =
             IF WindowLeft < CurrentStats.mean.v /\ CurrentStats.mean.v < WindowRight
             THEN SUCCESS ELSE FAIL

C7_Witness ==
    /\ MeanCase
    /\ test.n_sigmas = DefaultNSigmas
    /\ ReferenceStats.mean.v = Whole(50) /\ ReferenceStats.std.v = Whole(5)
    /\ CurrentStats.mean.v = Whole(60)
    /\ outcome.status = FAIL

\* C8: a constructor given an explicit Metric together with construction
\* parameters that conflict with it raises instead of constructing the Test.
Conflict(a) ==
    /\ a.metric # NoneV
    /\ \/ a.column_name # NoneV /\ a.metric.column # NoneV /\ a.column_name # a.metric.column
       \/ a.left # NoneV /\ a.left # a.metric.left
       \/ a.right # NoneV /\ a.right # a.metric.right
       \/ a.values # NoneV /\ a.values # a.metric.values
       \/ a.quantile # NoneV /\ a.quantile # a.metric.quantile
       \/ a.method # NoneV /\ a.method # a.metric.method

C8_ConflictRaises ==
    (ctor # NoneV /\ Conflict(args)) => ctor = Raise("ValueError")

\* C9: in the tests that derive a default, the Condition check() evaluates is
\* the caller's Condition whenever it has a bound set, and a derived default
\* (which the caller's unset Condition is not part of) only otherwise.
DerivingKinds ==
    {"TestMostCommonValueShare", "TestShareOfOutRangeValues", "TestShareOfOutListValues"}

ZeroTolerance ==
    TestValueCondition(ApproxValue(0, NoneV), NoneV, NoneV, NoneV, NoneV, NoneV, NoneV, NoneV)

C9_ExplicitConditionWins ==
    (Checked /\ test.kind \in DerivingKinds /\ cond_used # NoneV) =>
        IF is_set(test.condition)
        THEN cond_used = test.condition
        ELSE /\ is_set(cond_used)
             /\ test.kind # "TestMostCommonValueShare" => cond_used = ZeroTolerance
             /\ test.kind = "TestMostCommonValueShare" =>
                    \/ cond_used.eq.t = "approx" /\ ReferenceGiven
                    \/ cond_used.lt = Num(FixedCeiling) /\ ~ReferenceGiven

C9_Witness ==
    /\ Checked /\ test.kind = "TestMostCommonValueShare" /\ GotResult
    /\ ReferenceHas /\ ReferenceStats.most_common_value_percentage # NoneV
    /\ is_set(test.condition)
    /\ cond_used = test.condition
    /\ Returned

\* C10: TestMostCommonValueShare with no explicit bound and a reference
\* share returns SUCCESS iff the current share is within 10% (relative) of
\* the reference share, and FAIL otherwise.
ShareCase ==
    /\ Checked /\ test.kind = "TestMostCommonValueShare" /\ GotResult
    /\ ~is_set(test.condition)
    /\ CurrentHas /\ CurrentStats.most_common_value_percentage # NoneV
    /\ ReferenceHas /\ ReferenceStats.most_common_value_percentage # NoneV

C10_RelativeBand ==
    ShareCase =>
        LET cur == CurrentStats.most_common_value_percentage.v
            ref == ReferenceStats.most_common_value_percentage.v
        IN  /\ Returned
            /\ outcome.status =
                 IF 10 * Abs(cur - ref) <= Abs(ref) THEN SUCCESS ELSE FAIL

C10_Witness ==
    /\ ShareCase
    /\ ReferenceStats.most_common_value_percentage.v = Whole(42)
    /\ CurrentStats.most_common_value_percentage.v = Whole(46)
    /\ outcome.status = SUCCESS

\* C11: TestMostCommonValueShare with no explicit bound and no reference
\* statistics returns SUCCESS iff the current share is strictly below 0.8,
\* and FAIL otherwise.
CeilingCase ==
    /\ Checked /\ test.kind = "TestMostCommonValueShare" /\ GotResult
    /\ ~is_set(test.condition)
    /\ ~ReferenceGiven
    /\ CurrentHas /\ CurrentStats.most_common_value_percentage # NoneV

C11_FixedCeiling ==
    CeilingCase =>
        /\ Returned
        /\ outcome.status =
             IF CurrentStats.most_common_value_percentage.v < Whole(80)
             THEN SUCCESS ELSE FAIL
        /\ cond_used.lt = Num(Milli(800))

C11_Witness ==
    /\ CeilingCase
    /\ CurrentStats.most_common_value_percentage.v = Whole(80)
    /\ outcome.status = FAIL

\* C12: the out-of-range and out-of-list share tests with no explicit bound
\* return SUCCESS for a share of 0 and FAIL for a share above 0.
ZeroToleranceCase ==
    /\ Checked /\ test.kind \in {"TestShareOfOutRangeValues", "TestShareOfOutListValues"}
    /\ GotResult
    /\ ~is_set(test.condition)

ShareUnderTest ==
    IF test.kind = "TestShareOfOutRangeValues"
    THEN metric.result.share_not_in_range
    ELSE metric.result.share_not_in_list

C12_ZeroTolerance ==
    ZeroToleranceCase =>
        /\ Returned
        /\ ShareUnderTest.v = 0 => outcome.status = SUCCESS
        /\ ShareUnderTest.v > 0 => outcome.status = FAIL

C12_Witness ==
    /\ ZeroToleranceCase
    /\ test.kind = "TestShareOfOutRangeValues"
    /\ ShareUnderTest = Num(Milli(30))
    /\ outcome.status = FAIL

\* C13: the stability tests return ERROR when the unstable-row count is
\* absent, SUCCESS iff the count is 0, and FAIL for every count above 0.
StabilityCase ==
    /\ Checked /\ test.kind \in {"TestConflictTarget", "TestConflictPrediction"}
    /\ GotResult

UnstableCount ==
    IF test.kind = "TestConflictTarget"
    THEN metric.result.number_not_stable_target
    ELSE metric.result.number_not_stable_prediction

C13_StabilityVerdict ==
    StabilityCase =>
        /\ Returned
        /\ outcome.status =
             IF UnstableCount = NoneV THEN ERROR
             ELSE IF UnstableCount.v = 0 THEN SUCCESS
             ELSE FAIL

C13_Witness ==
    /\ StabilityCase
    /\ test.kind = "TestConflictTarget"
    /\ UnstableCount = NoneV
    /\ outcome.status = ERROR

\* C14: a check() call leaves every attribute of the Test object (column
\* name, condition, n_sigmas, left, right, values, quantile, method) and its
\* Metric as they were before the call.
C14_CheckLeavesTestUnchanged ==
    [][(ctor = Str("ok") /\ calls' = calls + 1) => (test' = test /\ metric' = metric)]_vars

C14_Witness ==
    /\ Checked /\ calls >= 2
    /\ test.kind = "TestMostCommonValueShare"
    /\ ~is_set(test.condition)
    /\ cond_used # NoneV /\ is_set(cond_used)
    /\ test.condition = args.condition

\* C16: a feature-level test whose column is present but whose statistic is
\* undefined returns status ERROR without evaluating any condition, in every
\* subclass.
UndefinedValueCase ==
    /\ Checked /\ test.kind \in FeatureKinds /\ GotResult
    /\ CurrentHas
    /\ CurrentStats[FeatureField(test.kind)] = NoneV

C16_UndefinedValueIsError ==
    UndefinedValueCase =>
        (Returned /\ outcome.status = ERROR /\ cond_used = NoneV)

\* C17: when check_value fails with an evaluation error for the computed
\* value, check() returns a Result with status ERROR whose description says
\* that the condition cannot be evaluated.
EvaluationErrorCase ==
    /\ Checked /\ test.kind \in FeatureKinds
    /\ cond_used # NoneV
    /\ check_value(cond_used, Feature_calculate_value_for_test(test, metric).v).t = "raise"

C17_EvaluationErrorIsError ==
    EvaluationErrorCase =>
        /\ Returned
        /\ outcome.status = ERROR
        /\ outcome.description \in { <<Str("Cannot calculate the condition")>>,
                                     <<Str("cannot evaluate condition")>> }

\* C19: in a test that derives its default, the threshold printed in the
\* description (derived in get_description), the Condition the verdict was
\* taken from (derived again in check()) and a further get_condition() on the
\* test as check() left it are all the same Condition, and the Test still has
\* the attributes it was constructed with.
VerdictOnDerived ==
    /\ Checked /\ Returned
    /\ test.kind \in DerivingKinds
    /\ outcome.status \in {SUCCESS, FAIL}
    /\ Len(outcome.description) >= 6

PrintedCondition == outcome.description[6]

C19_DerivationRepeatable ==
    VerdictOnDerived =>
        /\ PrintedCondition = CondPart(cond_used)
        /\ get_condition(test, metric) = cond_used
        /\ test.condition = args.condition

C19_Witness ==
    /\ VerdictOnDerived /\ GotResult
    /\ test.kind = "TestMostCommonValueShare"
    /\ ~is_set(test.condition)
    /\ ReferenceHas
    /\ PrintedCondition.c.eq.t = "approx"
    /\ PrintedCondition = CondPart(cond_used)

\* C18: BaseFeatureDataQualityMetricsTest.check stops at its first unmet
\* precondition: with the feature missing it invokes none of
\* calculate_value_for_test, get_description, get_condition and check_value;
\* with an undefined value none of get_description, get_condition and
\* check_value; and no check() invokes check_value more than once.
Invokes(method) == \E i \in 1..Len(invoked) : invoked[i] = method

Times(method) == Cardinality({i \in 1..Len(invoked) : invoked[i] = method})

FeatureMissingCase ==
    /\ Checked /\ test.kind \in FeatureKinds /\ GotResult
    /\ ~CurrentHas

C18_EarlyExit ==
    /\ FeatureMissingCase =>
          \A method \in {"calculate_value_for_test", "get_description",
                         "get_condition", "check_value"} : ~Invokes(method)
    /\ UndefinedValueCase =>
          \A method \in {"get_description", "get_condition", "check_value"} : ~Invokes(method)
    /\ (Checked /\ test.kind \in FeatureKinds) => Times("check_value") <= 1

C18_Witness ==
    /\ UndefinedValueCase
    /\ test.kind = "TestFeatureValueMin"
    /\ Returned /\ outcome.status = ERROR
    /\ invoked = <<"get_result", "calculate_value_for_test">>

\* C20: the band a renderer draws is the band check() evaluated: for
\* TestMeanInNSigmas the drawn (gt, lt) are the bounds of the window the
\* current mean was compared against (the ones check() printed, rounded);
\* for a test with a derived default the drawn Condition is the effective
\* Condition check() took from get_condition().
Rendered == Checked /\ Returned /\ drawn # NoneV

C20_RenderedBand ==
    /\ (Rendered /\ MeanCase) =>
          /\ drawn.c.t = "condition"
          /\ drawn.c.gt = Num(WindowLeft) /\ drawn.c.lt = Num(WindowRight)
          /\ outcome.description[6] = Num(Round3(drawn.c.gt.v))
          /\ outcome.description[8] = Num(Round3(drawn.c.lt.v))
    /\ (Rendered /\ test.kind \in DerivingKinds /\ cond_used # NoneV) =>
          drawn.c = cond_used

\* C15: tests that hold the same Metric instance and run check() concurrently,
\* in any interleaving of their steps, each return what check() returns for
\* that test run alone against the Metric, whose result no step changes.
C15_ConcurrentAsAlone ==
    \A i \in DOMAIN thread :
        thread[i].pc = "done" =>
            thread[i].ret = BaseFeatureDataQualityMetricsTest_check(thread[i].self, shared).out

C15_Witness ==
    /\ DOMAIN thread = Threads
    /\ overlapped
    /\ \A i \in Threads : thread[i].pc = "done" /\ thread[i].ret.t = "result"
    /\ thread["t1"].self # thread["t2"].self
    /\ thread["t1"].ret.status = SUCCESS /\ thread["t2"].ret.status = FAIL

\* C21: a request that fails with 401 after an earlier request succeeded
\* makes the client fetch a fresh JWT, store it, and send the same request a
\* second time, returning what the second attempt gave; also for calls with
\* the default cookies=None.
RenewalCase ==
    /\ last # NoneV
    /\ last.before.logged_in
    /\ last.first = HTTPError(Unauthorized)
    /\ last.renewal.t = "num"

C21_RenewsAndRetries ==
    RenewalCase =>
        /\ client.jwt_token = last.renewal
        /\ Sends(last.sent, last.path) = 2
        /\ last.retry # NoneV
        /\ last.out = last.retry

\* C22: one _request call sends the underlying request at most twice and
\* asks the login endpoint for a renewal at most once; when the second
\* attempt fails, with 401 or anything else, that error is what the call
\* raises, with nothing sent after it.
C22_BoundedRenewal ==
    last # NoneV =>
        /\ Sends(last.sent, last.path) <= 2
        /\ last.renewals <= 1
        /\ Logins(last.sent) <= 1
        /\ (last.retry # NoneV /\ last.retry.t = "raise") =>
              /\ last.out = last.retry
              /\ last.sent[Len(last.sent)].path = last.path
              /\ Sends(last.sent, last.path) = 2

C22_Witness ==
    /\ last # NoneV
    /\ last.retry = HTTPError(Unauthorized)
    /\ last.out = HTTPError(Unauthorized)
    /\ Sends(last.sent, last.path) = 2
    /\ Logins(last.sent) = 1

\* C23: an HTTP error that is not a 401, or a 401 on a client no request of
\* which has succeeded yet, leaves _request as it came: nothing is sent after
\* the failed request (no renewal login, no retry), the cached JWT is the one
\* that was cached when the failed request was sent, and a _logged_in that was
\* true before the call is true after it.
NoRenewalCase ==
    /\ last # NoneV
    /\ last.first.t = "raise" /\ last.first.exc = "HTTPError"
    /\ (last.first.status # Unauthorized \/ ~last.before.logged_in)

C23_RenewOnlyAfterSuccess ==
    /\ NoRenewalCase =>
          /\ last.out = last.first
          /\ last.renewals = 0 /\ last.retry = NoneV
          /\ Sends(last.sent, last.path) <= 1
          /\ Logins(last.sent) = (IF last.before.jwt_token = NoneV THEN 1 ELSE 0)
          /\ client.jwt_token = last.sent[Len(last.sent)].cached
          /\ last.before.jwt_token # NoneV => client.jwt_token = last.before.jwt_token
          /\ client.logged_in = last.before.logged_in
    /\ (last # NoneV /\ last.before.logged_in) => client.logged_in

C23_Witness ==
    /\ NoRenewalCase
    /\ last.first = HTTPError(Unauthorized)
    /\ last.before.jwt_token # NoneV
    /\ ~client.logged_in
    /\ net.calls >= 2 /\ net.logins = 1

\* C24 (as stated): while no renewal has occurred, the login endpoint has been
\* called exactly once, by the first non-login request; every non-login
\* request carries the cached JWT in the token cookie; and the login request
\* carries no token cookie.
CarriesToken(sent) ==
    \A i \in DOMAIN sent :
        IF sent[i].path = LoginPath
        THEN TokenCookie \notin DOMAIN sent[i].cookies.m
        ELSE /\ TokenCookie \in DOMAIN sent[i].cookies.m
             /\ sent[i].cached # NoneV
             /\ sent[i].cookies.m[TokenCookie] = sent[i].cached

C24_LoginExactlyOnce ==
    (last # NoneV /\ net.renewals = 0) =>
        /\ net.logins = 1
        /\ CarriesToken(last.sent)

\* C24 (amended): while no renewal has occurred, a non-login request calls
\* the login endpoint exactly when no JWT is cached, so the endpoint is asked
\* again after a login that failed, but it hands out a token at most once and
\* is never called once a token is cached; every non-login request carries
\* the cached JWT in the token cookie; and the login request carries no token
\* cookie.
C24_LoginUntilCached ==
    (last # NoneV /\ net.renewals = 0) =>
        /\ Logins(last.sent) = (IF last.before.jwt_token = NoneV THEN 1 ELSE 0)
        /\ net.issued = (IF client.jwt_token = NoneV THEN 0 ELSE 1)
        /\ net.logins >= 1
        /\ CarriesToken(last.sent)

C24_Witness ==
    /\ last # NoneV /\ net.renewals = 0
    /\ net.calls = 3
    /\ net.logins = 2 /\ net.issued = 1
    /\ last.before.jwt_token # NoneV
    /\ last.out.t = "response"
    /\ Len(last.sent) = 1

\* C25: whether the upload of CloudWorkspace.add_dataset returns a dataset id
\* or raises, the file add_dataset opened or created is closed when
\* add_dataset returns or lets the error through, and a successful upload's
\* dataset id is what add_dataset returns.
UploadCase == upload # NoneV /\ upload.uploaded

====
